---------------------------- MODULE Spec2Model ----------------------------
(***************************************************************************)
(* Shape-level model of src/Model.py: the U-Net Generator (encoder_block,   *)
(* decoder_block, double_conv_block) and the patch Critic (conv_block).     *)
(*                                                                         *)
(* A tensor is modelled by its shape [n, c, h, w].  Every layer is modelled *)
(* by the shape arithmetic of the torch.nn primitive the source constructs, *)
(* with the arguments the source passes, including the conditions under     *)
(* which the primitive raises.  The state of a model instance is the state  *)
(* its layers keep: the batch-norm num_batches_tracked counters, the        *)
(* train/eval flag and, for the Critic, how often each registered module    *)
(* was visited by the normal_ initialiser.                                  *)
(***************************************************************************)
EXTENDS Naturals, Sequences, FiniteSets

(***************************************************************************)
(* Bounds of the model.                                                     *)
(***************************************************************************)
MaxBatch == 2
MaxSize == 33
MaxCriticSize == 257
MaxBlockSize == 5
MaxCalls == 2

BatchSizes == 1..MaxBatch
\* Generator inputs: every height and width up to MaxSize on an instance's
\* first call, the sizes next to the multiples of 8 on its later calls.
GenSizes == 1..MaxSize
RepeatSizes == {s \in GenSizes : s % 8 \in {0, 1}}
\* Critic inputs: every small size, and the sizes around each multiple of 32.
CriticSizes == (1..MaxBlockSize) \cup {s \in 1..MaxCriticSize : s % 32 \in {0, 1, 31}}
\* Inputs of a block used on its own: every small size, and 32.
BlockSizes == (1..MaxBlockSize) \cup {32}

(***************************************************************************)
(* Tensors (shapes) and the results of layers.                              *)
(***************************************************************************)
Shape(n, c, h, w) == [n |-> n, c |-> c, h |-> h, w |-> w]
NoShape == Shape(0, 0, 0, 0)

Ok(t) == [ok |-> TRUE, t |-> t]
Raise == [ok |-> FALSE, t |-> NoShape]

(***************************************************************************)
(* torch.nn primitives, as the source constructs them.                      *)
(***************************************************************************)
\* nn.Conv2d output size along one spatial axis.
Conv2dSize(s, kernel_size, stride, padding) ==
    ((s + 2 * padding - kernel_size) \div stride) + 1

\* nn.Conv2d: raises on a channel mismatch and when the kernel is larger
\* than the padded input.
Conv2d(x, in_channels, out_channels, kernel_size, stride, padding) ==
    IF \/ x.c # in_channels
       \/ x.h + 2 * padding < kernel_size
       \/ x.w + 2 * padding < kernel_size
    THEN Raise
    ELSE Ok(Shape(x.n, out_channels,
                  Conv2dSize(x.h, kernel_size, stride, padding),
                  Conv2dSize(x.w, kernel_size, stride, padding)))

\* nn.MaxPool2d((2, 2)): window 2, stride = window, no padding, floor mode.
MaxPoolKernel == 2

\* (With ceil_mode=True the size is rounded up.)
MaxPool2dSizeCeil(s) == (s + 1) \div MaxPoolKernel

MaxPool2dSize(s) ==
    IF s < MaxPoolKernel THEN 0 ELSE ((s - MaxPoolKernel) \div MaxPoolKernel) + 1

\* Raises when the pooled output would be empty ("Output size is too small").
MaxPool2d(x) ==
    IF MaxPool2dSize(x.h) < 1 \/ MaxPool2dSize(x.w) < 1
    THEN Raise
    ELSE Ok(Shape(x.n, x.c, MaxPool2dSize(x.h), MaxPool2dSize(x.w)))

\* nn.ConvTranspose2d(kernel_size=2, stride=2, padding=0) along one axis.
UpStride == 2
UpKernel == 2

\* (With kernel_size=3 the upsampled windows overlap.)
ConvTranspose2dSizeOverlap(s) == (s - 1) * UpStride + UpKernel + 1

ConvTranspose2dSize(s) == (s - 1) * UpStride + UpKernel

ConvTranspose2d(x, in_channels, out_channels) ==
    IF x.c # in_channels
    THEN Raise
    ELSE Ok(Shape(x.n, out_channels,
                  ConvTranspose2dSize(x.h), ConvTranspose2dSize(x.w)))

\* (A concatenation that crops or pads its first argument to the second's size.)
catReconciling(a, b) ==
    IF a.n # b.n THEN Raise ELSE Ok(Shape(a.n, a.c + b.c, b.h, b.w))

\* torch.cat([a, b], dim=1): every dimension but the channels must agree.

cat(a, b) ==
    IF a.n # b.n \/ a.h # b.h \/ a.w # b.w
    THEN Raise
    ELSE Ok(Shape(a.n, a.c + b.c, a.h, a.w))

\* nn.BatchNorm2d(out_channels): track_running_stats defaults to True, so a
\* forward in training mode adds 1 to num_batches_tracked, and then raises
\* if there is a single value per channel (n * h * w = 1).
BatchNormTicks(training) == IF training THEN 1 ELSE 0

BatchNormRaises(x, training) == training /\ x.n * x.h * x.w = 1

\* nn.InstanceNorm2d(out_channels): track_running_stats defaults to False (no
\* statistics are kept); always normalises with the input's statistics and
\* raises on a single spatial element.
\* (With track_running_stats=True the layer keeps statistics.)
InstanceNormTracksMutant == TRUE

InstanceNormTracks == FALSE

InstanceNormTicks(training) == IF training /\ InstanceNormTracks THEN 1 ELSE 0

InstanceNormRaises(x) == x.h * x.w = 1

(***************************************************************************)
(* The blocks.  A block's forward yields                                    *)
(*   ok    - whether it returned,                                           *)
(*   t     - the tensor it returned (encoder_block: the skip, first of the  *)
(*           pair),                                                         *)
(*   p     - encoder_block only: the pooled tensor, second of the pair,     *)
(*   op    - the layer that raised, "" if none,                             *)
(*   ticks - for each normalisation layer of the block, how much its        *)
(*           num_batches_tracked advanced before the block returned or      *)
(*           raised.                                                        *)
(***************************************************************************)
BlockResult(ok, t, p, op, ticks) ==
    [ok |-> ok, t |-> t, p |-> p, op |-> op, ticks |-> ticks]

DoubleConvTicks(a, b) == [l \in {"sequence.1", "sequence.4"} |->
                            IF l = "sequence.1" THEN a ELSE b]

DoubleConvKernel == 3
DoubleConvPadding == 1

\* double_conv_block.forward: conv 3x3 pad 1, batch norm, ReLU, twice.
\* BatchNorm2d.forward advances num_batches_tracked before it checks its input.
double_conv_block(x, in_channels, out_channels, training) ==
    LET c1 == Conv2d(x, in_channels, out_channels, DoubleConvKernel, 1, DoubleConvPadding)
        c2 == Conv2d(c1.t, out_channels, out_channels, DoubleConvKernel, 1, DoubleConvPadding)
        tk == BatchNormTicks(training)
    IN  IF ~c1.ok
        THEN BlockResult(FALSE, NoShape, NoShape, "conv", DoubleConvTicks(0, 0))
        ELSE IF BatchNormRaises(c1.t, training)
        THEN BlockResult(FALSE, NoShape, NoShape, "batchnorm", DoubleConvTicks(tk, 0))
        ELSE IF ~c2.ok
        THEN BlockResult(FALSE, NoShape, NoShape, "conv", DoubleConvTicks(tk, 0))
        ELSE IF BatchNormRaises(c2.t, training)
        THEN BlockResult(FALSE, NoShape, NoShape, "batchnorm", DoubleConvTicks(tk, tk))
        ELSE BlockResult(TRUE, c2.t, NoShape, "", DoubleConvTicks(tk, tk))

\* (return p, p: the pooled map handed out as the skip.)
encoder_blockSkipPooled(x, in_channels, out_channels, training) ==
    LET out == double_conv_block(x, in_channels, out_channels, training)
        p == MaxPool2d(out.t)
    IN  IF ~out.ok
        THEN out
        ELSE IF ~p.ok
        THEN BlockResult(FALSE, NoShape, NoShape, "maxpool", out.ticks)
        ELSE BlockResult(TRUE, p.t, p.t, "", out.ticks)

\* encoder_block.forward: out = conv(inputs); p = maxpool(out); return out, p.
encoder_block(x, in_channels, out_channels, training) ==
    LET out == double_conv_block(x, in_channels, out_channels, training)
        p == MaxPool2d(out.t)
    IN  IF ~out.ok
        THEN out
        ELSE IF ~p.ok
        THEN BlockResult(FALSE, NoShape, NoShape, "maxpool", out.ticks)
        ELSE BlockResult(TRUE, out.t, p.t, "", out.ticks)

\* decoder_block.forward: out = up(inputs); out = cat([out, skip], 1);
\* out = conv(out), where conv = double_conv_block(2*out_channels, out_channels).
decoder_block(x, skip, in_channels, out_channels, training) ==
    LET up == ConvTranspose2d(x, in_channels, out_channels)
        joined == cat(up.t, skip)
        out == double_conv_block(joined.t, 2 * out_channels, out_channels, training)
    IN  IF ~up.ok
        THEN BlockResult(FALSE, NoShape, NoShape, "up", DoubleConvTicks(0, 0))
        ELSE IF ~joined.ok
        THEN BlockResult(FALSE, NoShape, NoShape, "cat", DoubleConvTicks(0, 0))
        ELSE out

CriticKernel == 4
CriticStride == 2
CriticPadding == 1

InsNormTicks(a) == [l \in {"ins_norm"} |-> a]

\* conv_block.forward with the convolution's geometry as parameters:
\* conv, instance norm if norm, leaky ReLU.
conv_blockWith(x, in_channels, out_channels, norm, training, kernel_size, stride, padding) ==
    LET c == Conv2d(x, in_channels, out_channels, kernel_size, stride, padding)
    IN  IF ~c.ok
        THEN BlockResult(FALSE, NoShape, NoShape, "conv", InsNormTicks(0))
        ELSE IF norm /\ InstanceNormRaises(c.t)
        THEN BlockResult(FALSE, NoShape, NoShape, "ins_norm", InsNormTicks(InstanceNormTicks(training)))
        ELSE BlockResult(TRUE, c.t, NoShape, "",
                         InsNormTicks(IF norm THEN InstanceNormTicks(training) ELSE 0))

\* (padding=0 instead of padding=1.)
conv_blockUnpadded(x, in_channels, out_channels, norm, training) ==
    conv_blockWith(x, in_channels, out_channels, norm, training,
                   CriticKernel, CriticStride, 0)

\* (kernel_size=3 instead of kernel_size=4.)
conv_blockKernel3(x, in_channels, out_channels, norm, training) ==
    conv_blockWith(x, in_channels, out_channels, norm, training,
                   3, CriticStride, CriticPadding)

\* conv_block: self.conv = nn.Conv2d(in, out, kernel_size=4, stride=2, padding=1).
conv_block(x, in_channels, out_channels, norm, training) ==
    conv_blockWith(x, in_channels, out_channels, norm, training,
                   CriticKernel, CriticStride, CriticPadding)

(***************************************************************************)
(* Topology: Generator.__init__ and Critic.__init__.                        *)
(***************************************************************************)
Models == {"Generator", "Critic", "encoder_block", "decoder_block"}

GenInChannels == 1
GenOutChannels == 2

\* e1 = encoder_block(1, 64) ... e4 = encoder_block(256, 512)
GenEncoders == <<[name |-> "e1", in_channels |-> GenInChannels, out_channels |-> 64],
                 [name |-> "e2", in_channels |-> 64, out_channels |-> 128],
                 [name |-> "e3", in_channels |-> 128, out_channels |-> 256],
                 [name |-> "e4", in_channels |-> 256, out_channels |-> 512]>>

\* b = double_conv_block(512, 1024)
GenBottleneck == [name |-> "b", in_channels |-> 512, out_channels |-> 1024]

\* (d_k paired with s_k instead of s_(5-k).)
GenDecodersSameIndex ==
    <<[name |-> "d1", in_channels |-> 1024, out_channels |-> 512, skip |-> 1],
      [name |-> "d2", in_channels |-> 512, out_channels |-> 256, skip |-> 2],
      [name |-> "d3", in_channels |-> 256, out_channels |-> 128, skip |-> 3],
      [name |-> "d4", in_channels |-> 128, out_channels |-> 64, skip |-> 4]>>

\* d1 = decoder_block(1024, 512) ... d4 = decoder_block(128, 64); in forward
\* d1 takes skip s4, d2 takes s3, d3 takes s2, d4 takes s1.
GenDecoders == <<[name |-> "d1", in_channels |-> 1024, out_channels |-> 512, skip |-> 4],
                 [name |-> "d2", in_channels |-> 512, out_channels |-> 256, skip |-> 3],
                 [name |-> "d3", in_channels |-> 256, out_channels |-> 128, skip |-> 2],
                 [name |-> "d4", in_channels |-> 128, out_channels |-> 64, skip |-> 1]>>

GenBlocks == {"e1", "e2", "e3", "e4", "b", "d1", "d2", "d3", "d4"}

CriticInChannels == 3

\* block1 = conv_block(3, 32, norm=False) ... block5 = conv_block(256, 512, norm=True)
CriticBlocks == <<[name |-> "block1", in_channels |-> CriticInChannels, out_channels |-> 32, norm |-> FALSE],
                  [name |-> "block2", in_channels |-> 32, out_channels |-> 64, norm |-> TRUE],
                  [name |-> "block3", in_channels |-> 64, out_channels |-> 128, norm |-> TRUE],
                  [name |-> "block4", in_channels |-> 128, out_channels |-> 256, norm |-> TRUE],
                  [name |-> "block5", in_channels |-> 256, out_channels |-> 512, norm |-> TRUE]>>

\* output = nn.Conv2d(512, 1, kernel_size=4, bias=False): stride 1, no padding.
CriticOutputKernel == 4

\* (padding=1 on the output convolution.)
CriticOutputConvPadded(x) == Conv2d(x, 512, 1, CriticOutputKernel, 1, 1)

CriticOutputConv(x) == Conv2d(x, 512, 1, CriticOutputKernel, 1, 0)

\* outputs = nn.Conv2d(64, 2, kernel_size=1, padding=0)
GenOutputsConv(x) == Conv2d(x, 64, GenOutChannels, 1, 1, 0)

\* Constructor arguments tried for a block used on its own.
BlockCtors == {[in_channels |-> 64, out_channels |-> 64],
               [in_channels |-> 1024, out_channels |-> 512]}
NoCtor == [in_channels |-> 0, out_channels |-> 0]

\* The normalisation layers of each model, by (block, layer) as in state_dict.
NormLayers(m) ==
    IF m = "Generator" THEN GenBlocks \X {"sequence.1", "sequence.4"}
    ELSE IF m = "Critic" THEN {CriticBlocks[k].name : k \in 1..5} \X {"ins_norm"}
    ELSE {"conv"} \X {"sequence.1", "sequence.4"}

(***************************************************************************)
(* Module registry of the Critic, in registration order, which is the order *)
(* self.modules() yields: the Critic itself, then each child followed by    *)
(* its own children.                                                        *)
(***************************************************************************)
Module(block, layer, kind) ==
    [block |-> block, layer |-> layer, kind |-> kind, normalInits |-> 0]

\* conv_block.__init__ registers conv, ins_norm, lrelu under the block.
ConvBlockModules(name) ==
    <<Module(name, "", "conv_block"),
      Module(name, "conv", "Conv2d"),
      Module(name, "ins_norm", "InstanceNorm2d"),
      Module(name, "lrelu", "LeakyReLU")>>

\* (self.children() would yield only the direct children.)
TraversedChildren(ms) == {i \in 1..Len(ms) : ms[i].layer = "" /\ ms[i].block # ""}

\* for m in self.modules(): every registered module, nested ones included.
Traversed(ms) == 1..Len(ms)

\* isinstance(m, nn.Conv2d)
IsConv2d(m) == m.kind = "Conv2d"

(***************************************************************************)
(* State.                                                                   *)
(***************************************************************************)
VARIABLES
    model,      \* the class of the instance under consideration
    ctor,       \* its constructor arguments (blocks used on their own)
    pc,         \* position: "ctor", "init", "idle", a stage name, "done"
    training,   \* nn.Module.training
    nbt,        \* num_batches_tracked of every normalisation layer
    modules,    \* Critic: the registered modules and their normal_ counts
    initIdx,    \* Critic.__init__: position of the initialisation loop
    calls,      \* number of forward calls started
    input,      \* the argument of the current forward call
    skipIn,     \* decoder_block on its own: the skip argument
    x,          \* the tensor flowing through forward
    skips,      \* Generator.forward: s1..s4
    completed,  \* the stages of the current call that have returned, in order
    result      \* outcome of the last forward call

vars == <<model, ctor, pc, training, nbt, modules, initIdx, calls, input,
          skipIn, x, skips, completed, result>>

NoResult == [status |-> "none", out |-> NoShape, p |-> NoShape,
             failedAt |-> "", failedOp |-> ""]
Returned(t, p) == [status |-> "ok", out |-> t, p |-> p,
                   failedAt |-> "", failedOp |-> ""]
Raised(stage, op) == [status |-> "error", out |-> NoShape, p |-> NoShape,
                      failedAt |-> stage, failedOp |-> op]

NoSkips == [i \in 1..4 |-> NoShape]

\* The counters after a block named stage advanced its layers by ticks.
Tick(counters, stage, ticks) ==
    [k \in DOMAIN counters |->
        IF k[1] = stage /\ k[2] \in DOMAIN ticks
        THEN counters[k] + ticks[k[2]]
        ELSE counters[k]]

Init ==
    /\ model \in Models
    /\ ctor \in (IF model \in {"encoder_block", "decoder_block"} THEN BlockCtors ELSE {NoCtor})
    /\ pc = IF model = "Critic" THEN "ctor" ELSE "idle"
    /\ training = TRUE
    /\ nbt = [k \in NormLayers(model) |-> 0]
    /\ modules = IF model = "Critic" THEN <<Module("", "", "Critic")>> ELSE <<>>
    /\ initIdx = 0
    /\ calls = 0
    /\ input = NoShape
    /\ skipIn = NoShape
    /\ x = NoShape
    /\ skips = NoSkips
    /\ completed = <<>>
    /\ result = NoResult

(***************************************************************************)
(* Critic.__init__                                                          *)
(***************************************************************************)
BlocksBuilt == Cardinality({i \in 1..Len(modules) : modules[i].kind = "conv_block"})

\* self.block1 = conv_block(...) ... self.block5 = conv_block(...)
CriticConstructBlock ==
    /\ model = "Critic" /\ pc = "ctor"
    /\ BlocksBuilt < Len(CriticBlocks)
    /\ modules' = modules \o ConvBlockModules(CriticBlocks[BlocksBuilt + 1].name)
    /\ UNCHANGED <<model, ctor, pc, training, nbt, initIdx, calls, input,
                   skipIn, x, skips, completed, result>>

\* self.output = nn.Conv2d(512, 1, kernel_size=4, bias=False); the loop starts.
CriticConstructOutput ==
    /\ model = "Critic" /\ pc = "ctor"
    /\ BlocksBuilt = Len(CriticBlocks)
    /\ modules' = Append(modules, Module("output", "", "Conv2d"))
    /\ pc' = "init"
    /\ initIdx' = 1
    /\ UNCHANGED <<model, ctor, training, nbt, calls, input, skipIn, x, skips,
                   completed, result>>

\* One iteration of: for m in self.modules():
\*                       if isinstance(m, nn.Conv2d): init.normal_(m.weight, 0, 0.02)
CriticInitWeights ==
    /\ model = "Critic" /\ pc = "init"
    /\ initIdx <= Len(modules)
    /\ modules' = [modules EXCEPT ![initIdx].normalInits =
                      IF initIdx \in Traversed(modules) /\ IsConv2d(modules[initIdx])
                      THEN @ + 1 ELSE @]
    /\ initIdx' = initIdx + 1
    /\ pc' = IF initIdx = Len(modules) THEN "idle" ELSE "init"
    /\ UNCHANGED <<model, ctor, training, nbt, calls, input, skipIn, x, skips,
                   completed, result>>

(***************************************************************************)
(* nn.Module.train() / eval(), inherited by every class of the source.      *)
(***************************************************************************)
SetTraining ==
    /\ pc = "idle"
    /\ training' = ~training
    /\ UNCHANGED <<model, ctor, pc, nbt, modules, initIdx, calls, input, skipIn,
                   x, skips, completed, result>>

\* The caller is done with the outcome of a forward call; the instance is
\* ready for the next call.
Resume ==
    /\ pc = "done"
    /\ pc' = "idle"
    /\ input' = NoShape /\ skipIn' = NoShape /\ completed' = <<>> /\ result' = NoResult
    /\ UNCHANGED <<model, ctor, training, nbt, modules, initIdx, calls, x, skips>>

(***************************************************************************)
(* Generator.forward, one stage per step.                                   *)
(***************************************************************************)
\* The stage after the one named by pc.
GenOrder == <<"e1", "e2", "e3", "e4", "b", "d1", "d2", "d3", "d4", "outputs">>
CriticOrder == <<"block1", "block2", "block3", "block4", "block5", "output">>

Index(order, name) == CHOOSE i \in 1..Len(order) : order[i] = name
After(order, name) ==
    IF Index(order, name) = Len(order) THEN "done" ELSE order[Index(order, name) + 1]

\* A stage raised: the exception leaves forward, the locals are gone.
Fail(stage, op) ==
    /\ result' = Raised(stage, op)
    /\ pc' = "done"
    /\ x' = NoShape
    /\ skips' = NoSkips
    /\ UNCHANGED completed

\* The trainer calls Generator.forward(inputs) with a (N,1,H,W) tensor.
GeneratorCall ==
    /\ model = "Generator" /\ pc = "idle"
    /\ calls < MaxCalls
    /\ \E n \in BatchSizes :
       \E h, w \in (IF calls = 0 THEN GenSizes ELSE RepeatSizes) :
          /\ input' = Shape(n, GenInChannels, h, w)
          /\ x' = Shape(n, GenInChannels, h, w)
    /\ calls' = calls + 1
    /\ pc' = GenOrder[1]
    /\ skips' = NoSkips /\ completed' = <<>> /\ result' = NoResult
    /\ UNCHANGED <<model, ctor, training, nbt, modules, initIdx, skipIn>>

\* s_k, p_k = self.e_k(p_{k-1})
GenEncoderStage ==
    /\ model = "Generator"
    /\ \E k \in 1..Len(GenEncoders) :
          LET e == GenEncoders[k]
              r == encoder_block(x, e.in_channels, e.out_channels, training)
          IN  /\ pc = e.name
              /\ nbt' = Tick(nbt, e.name, r.ticks)
              /\ IF r.ok
                 THEN /\ skips' = [skips EXCEPT ![k] = r.t]
                      /\ x' = r.p
                      /\ completed' = Append(completed, e.name)
                      /\ pc' = After(GenOrder, e.name)
                      /\ UNCHANGED result
                 ELSE Fail(e.name, r.op)
    /\ UNCHANGED <<model, ctor, training, modules, initIdx, calls, input, skipIn>>

\* b = self.b(p4)
GenBottleneckStage ==
    /\ model = "Generator" /\ pc = GenBottleneck.name
    /\ LET r == double_conv_block(x, GenBottleneck.in_channels,
                                  GenBottleneck.out_channels, training)
       IN  /\ nbt' = Tick(nbt, GenBottleneck.name, r.ticks)
           /\ IF r.ok
              THEN /\ x' = r.t
                   /\ completed' = Append(completed, GenBottleneck.name)
                   /\ pc' = After(GenOrder, GenBottleneck.name)
                   /\ UNCHANGED <<skips, result>>
              ELSE Fail(GenBottleneck.name, r.op)
    /\ UNCHANGED <<model, ctor, training, modules, initIdx, calls, input, skipIn>>

\* d_k = self.d_k(d_{k-1}, s_{5-k})
GenDecoderStage ==
    /\ model = "Generator"
    /\ \E k \in 1..Len(GenDecoders) :
          LET d == GenDecoders[k]
              r == decoder_block(x, skips[d.skip], d.in_channels, d.out_channels, training)
          IN  /\ pc = d.name
              /\ nbt' = Tick(nbt, d.name, r.ticks)
              /\ IF r.ok
                 THEN /\ x' = r.t
                      /\ completed' = Append(completed, d.name)
                      /\ pc' = After(GenOrder, d.name)
                      /\ UNCHANGED <<skips, result>>
                 ELSE Fail(d.name, r.op)
    /\ UNCHANGED <<model, ctor, training, modules, initIdx, calls, input, skipIn>>

\* outputs = self.outputs(d4); return outputs
GenOutputsStage ==
    /\ model = "Generator" /\ pc = "outputs"
    /\ LET r == GenOutputsConv(x)
       IN  IF r.ok
           THEN /\ result' = Returned(r.t, NoShape)
                /\ completed' = Append(completed, "outputs")
                /\ pc' = "done"
                /\ x' = NoShape /\ skips' = NoSkips
           ELSE Fail("outputs", "conv")
    /\ UNCHANGED <<model, ctor, training, nbt, modules, initIdx, calls, input, skipIn>>

(***************************************************************************)
(* Critic.forward, one stage per step.                                      *)
(***************************************************************************)
\* The trainer calls Critic.forward(input) with a (N,3,H,W) tensor.
CriticCall ==
    /\ model = "Critic" /\ pc = "idle"
    /\ calls < MaxCalls
    /\ \E n \in BatchSizes, h \in CriticSizes, w \in CriticSizes :
          /\ input' = Shape(n, CriticInChannels, h, w)
          /\ x' = Shape(n, CriticInChannels, h, w)
    /\ calls' = calls + 1
    /\ pc' = CriticOrder[1]
    /\ completed' = <<>> /\ result' = NoResult
    /\ UNCHANGED <<model, ctor, training, nbt, modules, initIdx, skipIn, skips>>

\* x = self.block_k(x)
CriticBlockStage ==
    /\ model = "Critic"
    /\ \E k \in 1..Len(CriticBlocks) :
          LET b == CriticBlocks[k]
              r == conv_block(x, b.in_channels, b.out_channels, b.norm, training)
          IN  /\ pc = b.name
              /\ nbt' = Tick(nbt, b.name, r.ticks)
              /\ IF r.ok
                 THEN /\ x' = r.t
                      /\ completed' = Append(completed, b.name)
                      /\ pc' = After(CriticOrder, b.name)
                      /\ UNCHANGED <<skips, result>>
                 ELSE Fail(b.name, r.op)
    /\ UNCHANGED <<model, ctor, training, modules, initIdx, calls, input, skipIn>>

\* output = self.output(x); return output
CriticOutputStage ==
    /\ model = "Critic" /\ pc = "output"
    /\ LET r == CriticOutputConv(x)
       IN  IF r.ok
           THEN /\ result' = Returned(r.t, NoShape)
                /\ completed' = Append(completed, "output")
                /\ pc' = "done"
                /\ x' = NoShape /\ skips' = NoSkips
           ELSE Fail("output", "conv")
    /\ UNCHANGED <<model, ctor, training, nbt, modules, initIdx, calls, input, skipIn>>

(***************************************************************************)
(* A block used on its own: one forward call per step.                      *)
(***************************************************************************)
\* What the skip argument's height or width may be for an input's h or w.
SkipSizes(s) == (2 * s - 1)..(2 * s + 1)

\* encoder_block(in_channels, out_channels).forward(inputs)
EncoderBlockForward ==
    /\ model = "encoder_block" /\ pc = "idle"
    /\ calls < MaxCalls
    /\ \E n \in BatchSizes, h \in BlockSizes, w \in BlockSizes :
          LET inputs == Shape(n, ctor.in_channels, h, w)
              r == encoder_block(inputs, ctor.in_channels, ctor.out_channels, training)
          IN  /\ input' = inputs
              /\ nbt' = Tick(nbt, "conv", r.ticks)
              /\ result' = IF r.ok THEN Returned(r.t, r.p) ELSE Raised("conv", r.op)
    /\ calls' = calls + 1
    /\ pc' = "done"
    /\ UNCHANGED <<model, ctor, training, modules, initIdx, skipIn, x, skips, completed>>

\* decoder_block(in_channels, out_channels).forward(inputs, skip)
DecoderBlockForward ==
    /\ model = "decoder_block" /\ pc = "idle"
    /\ calls < MaxCalls
    /\ \E n \in BatchSizes, h \in BlockSizes, w \in BlockSizes :
       \E sh \in SkipSizes(h), sw \in SkipSizes(w) :
          LET inputs == Shape(n, ctor.in_channels, h, w)
              skip == Shape(n, ctor.out_channels, sh, sw)
              r == decoder_block(inputs, skip, ctor.in_channels, ctor.out_channels, training)
          IN  /\ input' = inputs
              /\ skipIn' = skip
              /\ nbt' = Tick(nbt, "conv", r.ticks)
              /\ result' = IF r.ok THEN Returned(r.t, NoShape) ELSE Raised("conv", r.op)
    /\ calls' = calls + 1
    /\ pc' = "done"
    /\ UNCHANGED <<model, ctor, training, modules, initIdx, x, skips, completed>>

Next ==
    \/ CriticConstructBlock
    \/ CriticConstructOutput
    \/ CriticInitWeights
    \/ SetTraining
    \/ Resume
    \/ GeneratorCall
    \/ GenEncoderStage
    \/ GenBottleneckStage
    \/ GenDecoderStage
    \/ GenOutputsStage
    \/ CriticCall
    \/ CriticBlockStage
    \/ CriticOutputStage
    \/ EncoderBlockForward
    \/ DecoderBlockForward

Spec == Init /\ [][Next]_vars

(***************************************************************************)
(* Properties.                                                              *)
(***************************************************************************)
GenDone == model = "Generator" /\ pc = "done"
CriticDone == model = "Critic" /\ pc = "done"
EncDone == model = "encoder_block" /\ pc = "done"
DecDone == model = "decoder_block" /\ pc = "done"

Div16(s) == s % 16 = 0
GenValidInput == input.h >= 16 /\ input.w >= 16 /\ Div16(input.h) /\ Div16(input.w)

\* The bottleneck's batch norm sees a single value per channel.
OneValueAtBottleneck ==
    training /\ input.n = 1 /\ input.h \div 16 = 1 /\ input.w \div 16 = 1

GenReturnedFullShape ==
    /\ result.status = "ok"
    /\ result.out = Shape(input.n, 2, input.h, input.w)
    /\ completed = GenOrder

\* C1 as stated: for every N >= 1 and H, W >= 16 divisible by 16,
\* Generator.forward on (N,1,H,W) completes and returns (N,2,H,W).
C1_AsStated == (GenDone /\ GenValidInput) => GenReturnedFullShape

\* C1, amended: for every N >= 1 and H, W >= 16 divisible by 16,
\* Generator.forward on (N,1,H,W) runs all ten stages and returns (N,2,H,W),
\* except in training mode with N = 1 and H = W = 16, where the bottleneck's
\* batch norm raises on a single value per channel.
C1_GeneratorShape ==
    (GenDone /\ GenValidInput) =>
        IF OneValueAtBottleneck
        THEN result.status = "error" /\ result.failedAt = "b"
             /\ result.failedOp = "batchnorm"
        ELSE GenReturnedFullShape

C1_Witness ==
    /\ GenDone /\ training /\ result.status = "ok"
    /\ input = Shape(1, 1, 32, 16) /\ result.out = Shape(1, 2, 32, 16)

CriticReturnedOneChannel ==
    /\ result.status = "ok"
    /\ result.out.n = input.n /\ result.out.c = 1
    /\ result.out.h >= 1 /\ result.out.w >= 1

\* C2 as stated: for every N >= 1 and H, W >= 64, Critic.forward on (N,3,H,W)
\* completes and produces a 4-dimensional output with one channel.
C2_AsStated ==
    (CriticDone /\ input.h >= 64 /\ input.w >= 64) => CriticReturnedOneChannel

\* C2, amended: for every N >= 1 and H, W >= 128, Critic.forward on (N,3,H,W)
\* completes and produces a 4-dimensional output with one channel.
C2_CriticSufficientSize ==
    (CriticDone /\ input.h >= 128 /\ input.w >= 128)
        => CriticReturnedOneChannel

C2_Witness ==
    /\ CriticDone /\ result.status = "ok"
    /\ input = Shape(2, 3, 128, 128) /\ result.out = Shape(2, 1, 1, 1)

\* C3 as stated: Critic.forward on (1,3,256,256) returns (1,1,30,30).
C3_AsStated ==
    (CriticDone /\ input = Shape(1, 3, 256, 256))
        => (result.status = "ok" /\ result.out = Shape(1, 1, 30, 30))

\* C3, amended: Critic.forward on (1,3,256,256) returns (1,1,5,5): five
\* halvings take 256 to 8 and the unpadded 4x4 convolution takes 8 to 5.
C3_Critic256 ==
    (CriticDone /\ input = Shape(1, 3, 256, 256))
        => (result.status = "ok" /\ result.out = Shape(1, 1, 5, 5))

C3_Witness ==
    /\ CriticDone /\ input = Shape(1, 3, 256, 256)
    /\ result.status = "ok" /\ completed = CriticOrder

GenEncoderNames == {GenEncoders[k].name : k \in 1..Len(GenEncoders)}
GenDecoderNames == {GenDecoders[k].name : k \in 1..Len(GenDecoders)}

\* C4 as stated: whenever H or W is not divisible by 16, Generator.forward
\* returns nothing and fails at the concatenation of d1.
C4_AsStated ==
    (GenDone /\ ~(Div16(input.h) /\ Div16(input.w))) =>
        /\ result.status = "error"
        /\ result.failedAt = "d1" /\ result.failedOp = "cat"

\* C4, amended: whenever H or W is not divisible by 16, Generator.forward
\* returns nothing.  It fails inside an encoder stage when H or W is below 16;
\* at the bottleneck's batch norm in training mode with N = 1 and H, W < 32;
\* and otherwise at the concatenation of a decoder stage, which is d1 exactly
\* when H mod 16 >= 8 or W mod 16 >= 8.
C4_FailsLoudly ==
    (GenDone /\ ~(Div16(input.h) /\ Div16(input.w))) =>
        /\ result.status = "error"
        /\ IF input.h < 16 \/ input.w < 16
           THEN /\ result.failedAt \in GenEncoderNames
                /\ result.failedOp \in {"maxpool", "batchnorm"}
           ELSE IF OneValueAtBottleneck
           THEN result.failedAt = "b" /\ result.failedOp = "batchnorm"
           ELSE /\ result.failedOp = "cat"
                /\ result.failedAt \in GenDecoderNames
                /\ result.failedAt = "d1" <=>
                      (input.h % 16 >= 8 \/ input.w % 16 >= 8)

C4_Witness ==
    /\ GenDone /\ input = Shape(2, 1, 17, 32)
    /\ result.status = "error" /\ result.failedAt = "d4" /\ result.failedOp = "cat"

\* A step of a forward call: the call itself or one of its stages.  The state
\* a model instance holds is the registered modules with their initialisation
\* counts, the train flag and the tracked statistics.
ForwardStep == calls' # calls \/ pc \notin {"ctor", "init", "idle", "done"}

\* C5 as stated: a forward invocation of Generator or Critic leaves every
\* piece of state held by the model instance as it was.
C5_AsStated ==
    [][(ForwardStep /\ model \in {"Generator", "Critic"}) =>
          (nbt' = nbt /\ modules' = modules /\ training' = training)]_vars

\* C5, amended: a forward invocation never changes the learned parameters'
\* initialisation or the train flag.  Critic.forward changes no state at all,
\* and neither does Generator.forward in eval mode.  In training mode each
\* batch norm layer that Generator.forward executes advances its tracked
\* statistics (num_batches_tracked by one per execution), and no other state
\* changes.
C5_ForwardEffects ==
    [][ForwardStep =>
          /\ modules' = modules /\ training' = training
          /\ (model = "Critic" \/ ~training) => nbt' = nbt
          /\ \A k \in DOMAIN nbt :
                /\ nbt'[k] \in {nbt[k], nbt[k] + 1}
                /\ nbt'[k] # nbt[k] => (training /\ k[1] \in {pc, "conv"})
          /\ (model = "Generator" /\ training /\ pc' \notin {"e1", "done"})
                => \A l \in {"sequence.1", "sequence.4"} : nbt'[<<pc, l>>] = nbt[<<pc, l>>] + 1
       ]_vars

C5_Witness ==
    /\ GenDone /\ calls = 2 /\ training /\ result.status = "ok"
    /\ \A k \in DOMAIN nbt : nbt[k] = 2

\* C6: when Critic construction finishes, each of the six convolutions (one
\* in each of block1..block5, and output) has been initialised by normal_
\* exactly once; the pass starts only after all six exist; no other module
\* is touched by it.
CriticConvs == {i \in 1..Len(modules) : modules[i].kind = "Conv2d"}

C6_CriticInit ==
    model = "Critic" =>
        /\ pc \notin {"ctor", "init"} =>
              /\ Cardinality(CriticConvs) = 6
              /\ \A k \in 1..5 : \E i \in CriticConvs :
                    modules[i].block = CriticBlocks[k].name /\ modules[i].layer = "conv"
              /\ \E i \in CriticConvs : modules[i].block = "output"
              /\ \A i \in CriticConvs : modules[i].normalInits = 1
        /\ \A i \in 1..Len(modules) :
              /\ modules[i].normalInits <= 1
              /\ modules[i].normalInits > 0 =>
                    (modules[i].kind = "Conv2d" /\ Cardinality(CriticConvs) = 6)

C6_Witness ==
    /\ model = "Critic" /\ pc = "idle" /\ calls = 0
    /\ \A i \in CriticConvs : modules[i].normalInits = 1
    /\ Cardinality(CriticConvs) = 6

EncReturned(h, w) ==
    /\ result.status = "ok"
    /\ result.out = Shape(input.n, ctor.out_channels, input.h, input.w)
    /\ result.p = Shape(input.n, ctor.out_channels, h, w)

\* C7 as stated: encoder_block.forward on (N,in_channels,H,W) returns
\* skip (N,out_channels,H,W) and downsampled (N,out_channels,H div 2,W div 2).
C7_AsStated == EncDone => EncReturned(input.h \div 2, input.w \div 2)

\* C7, amended: for H, W >= 2, encoder_block.forward on (N,in_channels,H,W)
\* returns the pre-pooling map (N,out_channels,H,W) as skip and
\* (N,out_channels,H div 2,W div 2) as downsampled, a trailing odd row or
\* column being dropped; for H = 1 or W = 1 it raises.
C7_EncoderBlock ==
    EncDone =>
        IF input.h >= 2 /\ input.w >= 2
        THEN EncReturned(input.h \div 2, input.w \div 2)
        ELSE result.status = "error"

C7_Witness ==
    /\ EncDone /\ input = Shape(1, 64, 5, 32) /\ ctor.out_channels = 64
    /\ result.status = "ok" /\ result.p = Shape(1, 64, 2, 16)

\* C8: decoder_block(in_channels, out_channels).forward(x, skip) with x of
\* shape (N,in_channels,H,W): if skip is (N,out_channels,2H,2W) the
\* concatenation has 2*out_channels channels, as the double conv block
\* declares, and the result is (N,out_channels,2H,2W); if skip's spatial size
\* differs from (2H,2W) the concatenation raises and nothing is returned.
C8_DecoderBlock ==
    DecDone =>
        IF skipIn.h = 2 * input.h /\ skipIn.w = 2 * input.w
        THEN /\ result.status = "ok"
             /\ result.out = Shape(input.n, ctor.out_channels, 2 * input.h, 2 * input.w)
             /\ cat(ConvTranspose2d(input, ctor.in_channels, ctor.out_channels).t,
                    skipIn).t.c = 2 * ctor.out_channels
        ELSE result.status = "error" /\ result.failedOp = "cat"

C8_Witness ==
    /\ DecDone /\ input = Shape(1, 1024, 2, 2) /\ skipIn = Shape(1, 512, 4, 4)
    /\ result.status = "ok" /\ result.out = Shape(1, 512, 4, 4)

\* C9: Critic.forward on (N,3,H,W) succeeds exactly when H div 32 >= 4 and
\* W div 32 >= 4, and then returns (N,1,H div 32 - 3,W div 32 - 3); the k-th
\* conv_block receives the input's size halved k-1 times, rounding down, and
\* the final convolution fails when it receives less than 4.
C9_CriticShape ==
    model = "Critic" =>
        /\ \A k \in 1..Len(CriticOrder) :
              pc = CriticOrder[k] =>
                  /\ x.h = input.h \div (2 ^ (k - 1))
                  /\ x.w = input.w \div (2 ^ (k - 1))
        /\ pc = "done" =>
              /\ result.status = "ok" <=>
                    (input.h \div 32 >= 4 /\ input.w \div 32 >= 4)
              /\ result.status = "ok" =>
                    result.out = Shape(input.n, 1, input.h \div 32 - 3,
                                       input.w \div 32 - 3)
              /\ result.failedAt = "output" =>
                    (input.h \div 32 < 4 \/ input.w \div 32 < 4)

C9_Witness ==
    /\ CriticDone /\ input = Shape(1, 3, 161, 255)
    /\ result.status = "ok" /\ result.out = Shape(1, 1, 2, 4)

\* Size of skip s_i along an axis of input size s.
SkipSize(s, i) == s \div (2 ^ (i - 1))
OddSkip(i) == SkipSize(input.h, i) % 2 = 1 \/ SkipSize(input.w, i) % 2 = 1
LastOddSkip == CHOOSE i \in 1..4 : OddSkip(i) /\ \A j \in (i + 1)..4 : ~OddSkip(j)

\* The stages that returned, and the failure, for a concatenation that
\* raises in d(5-i).
FailsAtDecoderOfSkip(i) ==
    /\ result.status = "error" /\ result.failedOp = "cat"
    /\ result.failedAt = GenOrder[10 - i]
    /\ completed = SubSeq(GenOrder, 1, 9 - i)

GenUnalignedInput ==
    input.h >= 16 /\ input.w >= 16 /\ ~(Div16(input.h) /\ Div16(input.w))

\* C10 as stated: for H, W >= 16 with H or W not divisible by 16, the pass
\* fails at the concatenation of d(5-i), i the largest index whose skip s_i
\* has an odd height or width, every earlier stage having returned.
C10_AsStated == (GenDone /\ GenUnalignedInput) => FailsAtDecoderOfSkip(LastOddSkip)

\* C10, amended: the same, except in training mode with N = 1 and H, W < 32,
\* where the bottleneck's batch norm raises before any decoder stage runs.
C10_FailingStage ==
    (GenDone /\ GenUnalignedInput) =>
        /\ IF OneValueAtBottleneck
           THEN /\ result.status = "error"
                /\ result.failedAt = "b" /\ result.failedOp = "batchnorm"
                /\ completed = SubSeq(GenOrder, 1, 4)
           ELSE FailsAtDecoderOfSkip(LastOddSkip)
        /\ (~OneValueAtBottleneck /\ result.failedAt = "d1")
              <=> (~OneValueAtBottleneck /\ (input.h % 16 >= 8 \/ input.w % 16 >= 8))

C10_Witness ==
    /\ GenDone /\ input = Shape(1, 1, 18, 33)
    /\ result.status = "error" /\ result.failedAt = "d3" /\ result.failedOp = "cat"
    /\ completed = <<"e1", "e2", "e3", "e4", "b", "d1", "d2">>
=============================================================================
